---- MODULE Spec2Model ----
(***************************************************************************)
(* Windowed multi-directional sequence remapping of DWMAKNet.py:           *)
(* rearrange_center_blocks, recover_window_lr, recover_window_ud and       *)
(* recover_center_blocks, with the external selective scan as a stub.      *)
(*                                                                         *)
(* Tensors.  The batch dimension is dropped: every operation of the model  *)
(* acts on each batch element independently.                               *)
(*   grid / block (C,h,w): [h |-> h, w |-> w, v |-> v] with v[c][i][j],    *)
(*                         c \in 0..C-1, i \in 0..h-1, j \in 0..w-1        *)
(*   sequence (C,L):       s[c] a TLA+ sequence, s[c][p+1] is position p   *)
(* A call returns [err |-> e, val |-> v]; e = "none" when it returned.     *)
(***************************************************************************)
EXTENDS Integers, Sequences, FiniteSets, TLC

\* ---------------------------------------------------------------- bounds
MaxH == 9
MaxW == 9
MaxKernel == 5
MaxC == 2

\* ------------------------------------------------------------ arithmetic
Min(a, b) == IF a < b THEN a ELSE b
Max(a, b) == IF a > b THEN a ELSE b

\* A Python slice bound i on an axis of length n: negative counts from the
\* end, then clamped to 0..n.
PyIndex(i, n) == IF i < 0 THEN Max(i + n, 0) ELSE Min(i, n)

\* Number of elements of the slice a:b on an axis of length n.
PyLen(a, b, n) == Max(PyIndex(b, n) - PyIndex(a, n), 0)

RECURSIVE Concat(_)
Concat(ss) == IF ss = <<>> THEN <<>> ELSE Head(ss) \o Concat(Tail(ss))

\* ------------------------------------------------------- tensor helpers
Chan(Cc) == 0 .. (Cc - 1)

\* x[:, :, r0:r1, c0:c1]
Slice(x, Cc, r0, r1, c0, c1) ==
    LET rlo == PyIndex(r0, x.h)
        clo == PyIndex(c0, x.w)
        hh  == PyLen(r0, r1, x.h)
        ww  == PyLen(c0, c1, x.w)
    IN [h |-> hh, w |-> ww,
        v |-> [c \in Chan(Cc) |-> [i \in 0 .. (hh - 1) |->
                 [j \in 0 .. (ww - 1) |-> x.v[c][rlo + i][clo + j]]]]]

\* block.transpose(2, 3)
TransposeMutant(t, Cc) == t
Transpose(t, Cc) ==
    [h |-> t.w, w |-> t.h,
     v |-> [c \in Chan(Cc) |-> [i \in 0 .. (t.w - 1) |->
              [j \in 0 .. (t.h - 1) |-> t.v[c][j][i]]]]]

\* block.reshape(B, C, -1) / .contiguous().view(B, C, -1): row-major
Flatten(t, Cc) ==
    [c \in Chan(Cc) |-> [p \in 1 .. (t.h * t.w) |->
        t.v[c][(p - 1) \div t.w][(p - 1) % t.w]]]

\* torch.cat(flattened, dim=-1)
CatSeqs(flattened, Cc) ==
    [c \in Chan(Cc) |-> Concat([i \in 1 .. Len(flattened) |-> flattened[i][c]])]

\* torch.flip(s, dims=[-1])
FlipMutant(s, Cc) == s
Flip(s, Cc) ==
    [c \in Chan(Cc) |-> [p \in 1 .. Len(s[c]) |-> s[c][Len(s[c]) + 1 - p]]]

\* one direction of stack(...).view(B, 4, -1, L): the (C, L1) data of the
\* direction is re-read row-major as (C*L1/L, L)
View(s, Cc, Lnew) ==
    LET Lold  == Len(s[0])
        total == Cc * Lold
        flat(q) == s[(q - 1) \div Lold][((q - 1) % Lold) + 1]
    IN IF total % Lnew # 0
       THEN [err |-> "RuntimeError", val |-> <<>>]
       ELSE [err |-> "none",
             val |-> [c \in Chan(total \div Lnew) |->
                        [p \in 1 .. Lnew |-> flat(c * Lnew + p)]]]

\* ------------------------------------------------ rearrange_center_blocks
h_centerMutant(Hh, k) == (Hh - k + 1) \div 2
h_center(Hh, k) == (Hh - k) \div 2
w_center(Ww, k) == (Ww - k) \div 2

\* order of the appends to blocks_lr
LROrder == <<"top_left", "top", "top_right", "left", "center_block", "right",
             "bottom_left", "bottom", "bottom_right">>

\* order of the appends to blocks_ud
UDOrderMutant == <<"center_block">>
UDOrder == <<"top_left", "left", "bottom_left", "top", "center_block",
             "bottom", "top_right", "right", "bottom_right">>

\* the if-condition under which the local variable of a region is assigned
GuardMutant(tag, Hh, Ww, k) ==
    LET hc == h_center(Hh, k)
        wc == w_center(Ww, k)
    IN CASE tag = "top_left"     -> hc > 0 /\ wc > 0
         [] tag = "top"          -> hc > 0
         [] tag = "top_right"    -> hc > 0 /\ (Ww - (wc + k)) > 0
         [] tag = "left"         -> wc > 0
         [] tag = "center_block" -> TRUE
         [] tag = "right"        -> (Ww - (wc + k)) > 0
         [] tag = "bottom_left"  -> (Hh - (hc + k)) > 0 /\ wc > 0
         [] tag = "bottom"       -> (Hh - (hc + k)) > 0 /\ wc > 0
         [] tag = "bottom_right" -> (Hh - (hc + k)) > 0 /\ (Ww - (wc + k)) > 0
Guard(tag, Hh, Ww, k) ==
    LET hc == h_center(Hh, k)
        wc == w_center(Ww, k)
    IN CASE tag = "top_left"     -> hc > 0 /\ wc > 0
         [] tag = "top"          -> hc > 0
         [] tag = "top_right"    -> hc > 0 /\ (Ww - (wc + k)) > 0
         [] tag = "left"         -> wc > 0
         [] tag = "center_block" -> TRUE
         [] tag = "right"        -> (Ww - (wc + k)) > 0
         [] tag = "bottom_left"  -> (Hh - (hc + k)) > 0 /\ wc > 0
         [] tag = "bottom"       -> (Hh - (hc + k)) > 0
         [] tag = "bottom_right" -> (Hh - (hc + k)) > 0 /\ (Ww - (wc + k)) > 0

\* the slice bounds r0:r1, c0:c1 of a region (an open bound is the axis end)
SliceOfMutant(tag, Hh, Ww, k) ==
    LET hc == h_center(Hh, k)
        wc == w_center(Ww, k)
        rTop == <<0, hc>>
        rMid == <<hc, hc + k>>
        rBot == <<hc + k, Hh>>
        cLeft  == <<0, wc>>
        cMid   == <<wc, wc + k - 1>>
        cRight == <<wc + k, Ww>>
        rr == CASE tag \in {"top_left", "top", "top_right"} -> rTop
                [] tag \in {"left", "center_block", "right"} -> rMid
                [] OTHER -> rBot
        cc == CASE tag \in {"top_left", "left", "bottom_left"} -> cLeft
                [] tag \in {"top", "center_block", "bottom"} -> cMid
                [] OTHER -> cRight
    IN [r0 |-> rr[1], r1 |-> rr[2], c0 |-> cc[1], c1 |-> cc[2]]
SliceOf(tag, Hh, Ww, k) ==
    LET hc == h_center(Hh, k)
        wc == w_center(Ww, k)
        rTop == <<0, hc>>
        rMid == <<hc, hc + k>>
        rBot == <<hc + k, Hh>>
        cLeft  == <<0, wc>>
        cMid   == <<wc, wc + k>>
        cRight == <<wc + k, Ww>>
        rr == CASE tag \in {"top_left", "top", "top_right"} -> rTop
                [] tag \in {"left", "center_block", "right"} -> rMid
                [] OTHER -> rBot
        cc == CASE tag \in {"top_left", "left", "bottom_left"} -> cLeft
                [] tag \in {"top", "center_block", "bottom"} -> cMid
                [] OTHER -> cRight
    IN [r0 |-> rr[1], r1 |-> rr[2], c0 |-> cc[1], c1 |-> cc[2]]

\* blocks_lr as the list of the tags of the regions appended to it
BlocksLrMutant(Hh, Ww, k) == SelectSeq(UDOrder, LAMBDA t : Guard(t, Hh, Ww, k))
BlocksLr(Hh, Ww, k) == SelectSeq(LROrder, LAMBDA t : Guard(t, Hh, Ww, k))

rearrange_center_blocks(x, Cc, k) ==
    LET Hh == x.h
        Ww == x.w
        LL == Hh * Ww
        blk(t) == LET s == SliceOf(t, Hh, Ww, k)
                  IN Slice(x, Cc, s.r0, s.r1, s.c0, s.c1)
        blocks_lr == BlocksLr(Hh, Ww, k)
        blocks_ud == UDOrder
        flattened == [i \in 1 .. Len(blocks_lr) |-> Flatten(blk(blocks_lr[i]), Cc)]
        output1 == CatSeqs(flattened, Cc)
        flattened2 == [i \in 1 .. Len(blocks_ud) |->
                         Flatten(Transpose(blk(blocks_ud[i]), Cc), Cc)]
        output2 == CatSeqs(flattened2, Cc)
        output3 == Flip(output1, Cc)
        output4 == Flip(output2, Cc)
        stacked == <<output1, output2, output3, output4>>
        viewed == [d \in 1 .. 4 |-> View(stacked[d], Cc, LL)]
    IN IF \E i \in 1 .. Len(blocks_ud) : ~Guard(blocks_ud[i], Hh, Ww, k)
       THEN [err |-> "UnboundLocalError", val |-> <<>>]
       ELSE IF Len(flattened) < Len(blocks_ud)
       THEN [err |-> "IndexError", val |-> <<>>]
       ELSE IF Len(output1[0]) # Len(output2[0])
               \/ \E d \in 1 .. 4 : viewed[d].err # "none"
       THEN [err |-> "RuntimeError", val |-> <<>>]
       ELSE [err |-> "none", val |-> [d \in 1 .. 4 |-> viewed[d].val]]

\* ------------------------------------------------------ recover_window_*
\* x[:, :, a:b] of a (C, L) sequence
SliceSeq(s, Cc, a, b) ==
    LET n  == Len(s[0])
        lo == PyIndex(a, n)
        ln == PyLen(a, b, n)
    IN [c \in Chan(Cc) |-> [p \in 1 .. ln |-> s[c][lo + p]]]

\* s.reshape(B, C, hh, ww): fails unless the element counts agree
ReshapeMutant(s, Cc, hh, ww) ==
    IF hh < 0 \/ ww < 0 \/ Len(s[0]) < hh * ww
    THEN [err |-> "RuntimeError", val |-> <<>>]
    ELSE [err |-> "none",
          val |-> [h |-> hh, w |-> ww,
                   v |-> [c \in Chan(Cc) |-> [i \in 0 .. (hh - 1) |->
                            [j \in 0 .. (ww - 1) |-> s[c][i * ww + j + 1]]]]]]
Reshape(s, Cc, hh, ww) ==
    IF hh < 0 \/ ww < 0 \/ Len(s[0]) # hh * ww
    THEN [err |-> "RuntimeError", val |-> <<>>]
    ELSE [err |-> "none",
          val |-> [h |-> hh, w |-> ww,
                   v |-> [c \in Chan(Cc) |-> [i \in 0 .. (hh - 1) |->
                            [j \in 0 .. (ww - 1) |-> s[c][i * ww + j + 1]]]]]]

\* torch.cat((a, b, c), dim=3): the row counts must agree
Cat3(a, b, c, Cc) ==
    IF a.h # b.h \/ b.h # c.h
    THEN [err |-> "RuntimeError", val |-> <<>>]
    ELSE [err |-> "none",
          val |-> [h |-> a.h, w |-> a.w + b.w + c.w,
                   v |-> [ch \in Chan(Cc) |-> [i \in 0 .. (a.h - 1) |->
                            [j \in 0 .. (a.w + b.w + c.w - 1) |->
                               IF j < a.w THEN a.v[ch][i][j]
                               ELSE IF j < a.w + b.w THEN b.v[ch][i][j - a.w]
                               ELSE c.v[ch][i][j - a.w - b.w]]]]]]

\* torch.cat((a, b, c), dim=2): the column counts must agree
Cat2(a, b, c, Cc) ==
    IF a.w # b.w \/ b.w # c.w
    THEN [err |-> "RuntimeError", val |-> <<>>]
    ELSE [err |-> "none",
          val |-> [h |-> a.h + b.h + c.h, w |-> a.w,
                   v |-> [ch \in Chan(Cc) |-> [i \in 0 .. (a.h + b.h + c.h - 1) |->
                            [j \in 0 .. (a.w - 1) |->
                               IF i < a.h THEN a.v[ch][i][j]
                               ELSE IF i < a.h + b.h THEN b.v[ch][i - a.h][j]
                               ELSE c.v[ch][i - a.h - b.h][j]]]]]]

IsEven(k) == k % 2 = 0

\* The nine cuts of recover_window_lr, in the order of the code: the region
\* assigned, the slice a:b (an open end is the sequence length LL) and the
\* shape (hh, ww) it is reshaped to.
SegmentsLr(k, LL) ==
    LET short    == k \div 2
        short1   == k \div 2 + 1
        small_l  == short * short
        medium_l == short * short * 2
        high_l   == short * short * 4
        l1 == short * short
        l2 == short * short1
        l3 == short * k
        l5 == short1 * k
        l6 == k * k
        seg(t, a, b, hh, ww) == [tag |-> t, a |-> a, b |-> b, hh |-> hh, ww |-> ww]
    IN IF IsEven(k)
       THEN << seg("top_left", 0, small_l, short, short),
               seg("top", small_l, small_l + medium_l, short, short * 2),
               seg("top_right", small_l + medium_l, 2 * small_l + medium_l, short, short),
               seg("left", 2 * small_l + medium_l, 2 * small_l + 2 * medium_l, short * 2, short),
               seg("center_block", 2 * small_l + 2 * medium_l,
                   2 * small_l + 2 * medium_l + high_l, short * 2, short * 2),
               seg("right", 2 * small_l + 2 * medium_l + high_l,
                   2 * small_l + 3 * medium_l + high_l, short * 2, short),
               seg("bottom_left", 2 * small_l + 3 * medium_l + high_l,
                   3 * small_l + 3 * medium_l + high_l, short, short),
               seg("bottom", 3 * small_l + 3 * medium_l + high_l,
                   3 * small_l + 4 * medium_l + high_l, short, short * 2),
               seg("bottom_right", 3 * small_l + 4 * medium_l + high_l, LL, short, short) >>
       ELSE << seg("top_left", 0, l1, short, short),
               seg("top", l1, l1 + l3, short, k),
               seg("top_right", l1 + l3, l1 + l2 + l3, short, short1),
               seg("left", l1 + l2 + l3, l1 + l2 + 2 * l3, k, short),
               seg("center_block", l1 + l2 + 2 * l3, l1 + l2 + 2 * l3 + l6, k, k),
               seg("right", l1 + l2 + 2 * l3 + l6, l1 + l2 + 2 * l3 + l5 + l6, k, short1),
               seg("bottom_left", l1 + l2 + 2 * l3 + l5 + l6,
                   l1 + 2 * l2 + 2 * l3 + l5 + l6, short1, short),
               seg("bottom", l1 + 2 * l2 + 2 * l3 + l5 + l6,
                   l1 + 2 * l2 + 2 * l3 + 2 * l5 + l6, short1, k),
               seg("bottom_right", l1 + 2 * l2 + 2 * l3 + 2 * l5 + l6, LL, short1, short1) >>

\* The nine cuts of recover_window_ud, in the order of the code.
SegmentsUd(k, LL) ==
    LET short    == k \div 2
        short1   == k \div 2 + 1
        small_l  == short * short
        medium_l == short * short * 2
        high_l   == short * short * 4
        l1 == short * short
        l2 == short * short1
        l3 == short * k
        l5 == short1 * k
        l6 == k * k
        seg(t, a, b, hh, ww) == [tag |-> t, a |-> a, b |-> b, hh |-> hh, ww |-> ww]
    IN IF IsEven(k)
       THEN << seg("top_left", 0, small_l, short, short),
               seg("left", small_l, small_l + medium_l, short * 2, short),
               seg("bottom_left", small_l + medium_l, 2 * small_l + medium_l, short, short),
               seg("top", 2 * small_l + medium_l, 2 * small_l + 2 * medium_l, short, short * 2),
               seg("center_block", 2 * small_l + 2 * medium_l,
                   2 * small_l + 2 * medium_l + high_l, short * 2, short * 2),
               seg("bottom", 2 * small_l + 2 * medium_l + high_l,
                   2 * small_l + 3 * medium_l + high_l, short, short * 2),
               seg("top_right", 2 * small_l + 3 * medium_l + high_l,
                   3 * small_l + 3 * medium_l + high_l, short, short),
               seg("right", 3 * small_l + 3 * medium_l + high_l,
                   3 * small_l + 4 * medium_l + high_l, short * 2, short),
               seg("bottom_right", 3 * small_l + 4 * medium_l + high_l, LL, short, short) >>
       ELSE << seg("top_left", 0, l1, short, short),
               seg("left", l1, l1 + l3, k, short),
               seg("bottom_left", l1 + l3, l1 + l2 + l3, short1, short),
               seg("top", l1 + l2 + l3, l1 + l2 + 2 * l3, short, k),
               seg("center_block", l1 + l2 + 2 * l3, l1 + l2 + 2 * l3 + l6, k, k),
               seg("bottom", l1 + l2 + 2 * l3 + l6, l1 + l2 + 2 * l3 + l5 + l6, short1, k),
               seg("top_right", l1 + l2 + 2 * l3 + l5 + l6,
                   l1 + 2 * l2 + 2 * l3 + l5 + l6, short, short1),
               seg("right", l1 + 2 * l2 + 2 * l3 + l5 + l6,
                   l1 + 2 * l2 + 2 * l3 + 2 * l5 + l6, k, short1),
               seg("bottom_right", l1 + 2 * l2 + 2 * l3 + 2 * l5 + l6, LL, short1, short1) >>

\* The tail shared by recover_window_lr and recover_window_ud: cut the
\* sequence by segs, reshape every cut to its region's shape (row-major, no
\* transposition) and concatenate the three bands.
Reassemble(s, Cc, segs) ==
    LET cut == [i \in 1 .. 9 |->
                  Reshape(SliceSeq(s, Cc, segs[i].a, segs[i].b), Cc, segs[i].hh, segs[i].ww)]
        idx(t) == CHOOSE i \in 1 .. 9 : segs[i].tag = t
        r(t) == cut[idx(t)].val
        topB    == Cat3(r("top_left"), r("top"), r("top_right"), Cc)
        mediumB == Cat3(r("left"), r("center_block"), r("right"), Cc)
        downB   == Cat3(r("bottom_left"), r("bottom"), r("bottom_right"), Cc)
    IN IF \E i \in 1 .. 9 : cut[i].err # "none"
       THEN [err |-> "RuntimeError", val |-> <<>>]
       ELSE IF topB.err # "none" \/ mediumB.err # "none" \/ downB.err # "none"
       THEN [err |-> "RuntimeError", val |-> <<>>]
       ELSE Cat2(topB.val, mediumB.val, downB.val, Cc)

recover_window_lrMutant(s, Cc, k) == Reassemble(s, Cc, SegmentsUd(k, Len(s[0])))
recover_window_lr(s, Cc, k) == Reassemble(s, Cc, SegmentsLr(k, Len(s[0])))

recover_window_udMutant(s, Cc, k) == Reassemble(s, Cc, SegmentsLr(k, Len(s[0])))
recover_window_ud(s, Cc, k) == Reassemble(s, Cc, SegmentsUd(k, Len(s[0])))

\* elementwise sum of two (C, L) sequences / two (C, h, w) grids
AddSeq(a, b, Cc) == [c \in Chan(Cc) |-> [p \in 1 .. Len(a[c]) |-> a[c][p] + b[c][p]]]

AddGridMutant(a, b, Cc) == a
AddGrid(a, b, Cc) ==
    [h |-> a.h, w |-> a.w,
     v |-> [c \in Chan(Cc) |-> [i \in 0 .. (a.h - 1) |-> [j \in 0 .. (a.w - 1) |->
              a.v[c][i][j] + b.v[c][i][j]]]]]

\* xx is the (4, C, L) tensor as <<xx[1], xx[2], xx[3], xx[4]>> (indices 0..3)
recover_center_blocks(xx, Cc, k) ==
    LET lr_y == xx[1]
        ud_y == xx[2]
        rl_y == Flip(xx[3], Cc)
        du_y == Flip(xx[4], Cc)
        y1 == recover_window_lr(AddSeq(lr_y, rl_y, Cc), Cc, k)
        y2 == recover_window_ud(AddSeq(ud_y, du_y, Cc), Cc, k)
    IN IF y1.err # "none" THEN y1
       ELSE IF y2.err # "none" THEN y2
       ELSE [err |-> "none", val |-> AddGrid(y1.val, y2.val, Cc)]

\* ------------------------------------------------------------ input grids
GridKinds == {"index", "mixed"}

\* "index": the cell's own row-major flat index (plus 100 per channel);
\* "mixed": small repeating values
MakeGrid(kind, Cc, Hh, Ww) ==
    [h |-> Hh, w |-> Ww,
     v |-> [c \in Chan(Cc) |-> [i \in 0 .. (Hh - 1) |-> [j \in 0 .. (Ww - 1) |->
              IF kind = "index" THEN 100 * c + i * Ww + j
                                ELSE (i * i + 3 * j + 2 * c) % 5]]]]

\* --------------------------------------------------------- selective scan
\* The external scan, reduced to its skip term: with B_t = 0 the state h_t
\* stays 0 and y_t = D_skip * x_t.  Ds[k+1] is the skip scalar of direction k
\* (one scalar for all channels of the direction); Ds = <<1,1,1,1>> is the
\* identity stub.
ScanParams == { <<1, 1, 1, 1>>, <<1, 2, 3, 5>> }

selective_scan(xx, Cc, Ds) ==
    [d \in 1 .. 4 |-> [c \in Chan(Cc) |->
        [p \in 1 .. Len(xx[d][c]) |-> Ds[d] * xx[d][c][p]]]]

\* xs.float().view(B, -1, L): the (4, C, L) tensor as 4*C channels, channel
\* k*C + c being channel c of direction k
FlatKDMutant(xx, Cc) ==
    [j \in Chan(4 * Cc) |-> xx[(j % 4) + 1][j \div 4]]
FlatKD(xx, Cc) ==
    [j \in Chan(4 * Cc) |-> xx[(j \div Cc) + 1][j % Cc]]

\* What the scan hands back for the 4*C channels it was given.  "none": the
\* (4*C, L) tensor of its contract; the other cases break the contract:
\* "channels": one extra channel per direction (4*(C+1), L); "long": every
\* sequence twice as long (4*C, 2L); "short": every sequence one element
\* short (4*C, L-1).
ScanFaults == {"none", "channels", "long", "short"}

ScanReturn(flat, Cc, fault) ==
    CASE fault = "channels" ->
            [j \in Chan(4 * (Cc + 1)) |->
                flat[(j \div (Cc + 1)) * Cc + Min(j % (Cc + 1), Cc - 1)]]
      [] fault = "long"  -> [j \in Chan(4 * Cc) |-> flat[j] \o flat[j]]
      [] fault = "short" -> [j \in Chan(4 * Cc) |-> SubSeq(flat[j], 1, Len(flat[j]) - 1)]
      [] OTHER -> flat

\* the scans of one pipeline run: the skip scalars and the shape fault
ScanRuns == (ScanParams \X {"none"}) \cup ({<<1, 1, 1, 1>>} \X (ScanFaults \ {"none"}))

\* (...).view(B, K, -1, L) of the scan's (n, L1) result: fails unless n*L1 is
\* a multiple of K*L, and otherwise re-reads the data row-major as
\* (K, n*L1/(K*L), L) whatever n and L1 are
ViewK(flat, n, Lnew) ==
    LET Lold  == Len(flat[0])
        total == n * Lold
        Cnew  == total \div (4 * Lnew)
        at(q) == flat[q \div Lold][(q % Lold) + 1]
    IN IF total % (4 * Lnew) # 0
       THEN [err |-> "RuntimeError", val |-> <<>>]
       ELSE [err |-> "none",
             val |-> [d \in 1 .. 4 |-> [c \in Chan(Cnew) |->
                        [p \in 1 .. Lnew |-> at(((d - 1) * Cnew + c) * Lnew + (p - 1))]]]]

\* number of channels of a (K, C, L) tensor (B, K, C, L = x.shape)
NumChan(xx) == Cardinality(DOMAIN xx[1])

\* ------------------------------------------------------------- W_SS2D
\* A (C, d1, d2, d3, d4) tensor is [d |-> <<d1, d2, d3, d4>>, v |-> v] with
\* v[c][<<i1, i2, i3, i4>>].
Indices(d) ==
    (0 .. (d[1] - 1)) \X (0 .. (d[2] - 1)) \X (0 .. (d[3] - 1)) \X (0 .. (d[4] - 1))

\* row-major offset of index i in dimensions d, and its inverse
Ravel(i, d) == ((i[1] * d[2] + i[2]) * d[3] + i[3]) * d[4] + i[4]
Unravel(q, d) ==
    << q \div (d[2] * d[3] * d[4]), (q \div (d[3] * d[4])) % d[2],
       (q \div d[4]) % d[3], q % d[4] >>

\* kernel = H // 2; assert H % kernel == 0 and W % kernel == 0
SizeGuardMutant(Hh, Ww, k) ==
    IF k = 0 \/ ~(Hh % k = 0 /\ Ww % k = 0) THEN "AssertionError"
    ELSE "none"
SizeGuard(Hh, Ww, k) ==
    IF k = 0 THEN "ZeroDivisionError"
    ELSE IF ~(Hh % k = 0 /\ Ww % k = 0) THEN "AssertionError"
    ELSE "none"

\* x.view(B, C, H // kernel, kernel, W // kernel, kernel)
ViewWindows(g, Cc, k) ==
    LET d == << g.h \div k, k, g.w \div k, k >>
    IN [d |-> d,
        v |-> [c \in Chan(Cc) |-> [i \in Indices(d) |->
                 g.v[c][Ravel(i, d) \div g.w][Ravel(i, d) % g.w]]]]

\* t.permute(0, 1, 1 + perm[1], 1 + perm[2], 1 + perm[3], 1 + perm[4]):
\* dimension n of the result is dimension perm[n] of t
PermuteMutant(t, Cc, perm) == t
Permute(t, Cc, perm) ==
    LET nd == << t.d[perm[1]], t.d[perm[2]], t.d[perm[3]], t.d[perm[4]] >>
        at(m) == CHOOSE n \in 1 .. 4 : perm[n] = m
    IN [d |-> nd,
        v |-> [c \in Chan(Cc) |-> [i \in Indices(nd) |->
                 t.v[c][<< i[at(1)], i[at(2)], i[at(3)], i[at(4)] >>]]]]

\* t.reshape(B, -1, L): the C * d1*d2*d3*d4 elements re-read row-major in
\* rows of length Lnew
ReshapeSeq(t, Cc, Lnew) ==
    LET n == t.d[1] * t.d[2] * t.d[3] * t.d[4]
    IN [c \in Chan((Cc * n) \div Lnew) |-> [p \in 1 .. Lnew |->
          LET q == c * Lnew + (p - 1)
          IN t.v[q \div n][Unravel(q % n, t.d)]]]

\* s.reshape(B, -1, d1, d2, d3, d4) of a (C, L) sequence
ReshapeWindows(s, Cc, d) ==
    LET n    == d[1] * d[2] * d[3] * d[4]
        Lold == Len(s[0])
    IN [d |-> d,
        v |-> [c \in Chan((Cc * Lold) \div n) |-> [i \in Indices(d) |->
                 LET q == c * n + Ravel(i, d)
                 IN s[q \div Lold][(q % Lold) + 1]]]]

\* t.contiguous().view(B, -1, H, W)
ViewGrid(t, Cc, Hh, Ww) ==
    [h |-> Hh, w |-> Ww,
     v |-> [c \in Chan(Cc) |-> [i \in 0 .. (Hh - 1) |-> [j \in 0 .. (Ww - 1) |->
              t.v[c][Unravel(i * Ww + j, t.d)]]]]]

\* W_SS2D.forward_core; Dsv are the skip scalars of the scan
W_forward_core(g, Cc, Dsv) ==
    LET Hh == g.h
        Ww == g.w
        k  == Hh \div 2
        LL == Hh * Ww
        xw == Permute(ViewWindows(g, Cc, k), Cc, <<2, 4, 1, 3>>)
        s1 == ReshapeSeq(xw, Cc, LL)
        s2 == ReshapeSeq(Permute(xw, Cc, <<2, 1, 4, 3>>), Cc, LL)
        xx == << s1, s2, Flip(s1, Cc), Flip(s2, Cc) >>
        out == ViewK(FlatKD(selective_scan(xx, Cc, Dsv), Cc), 4 * Cc, LL).val
        d  == << k, k, Hh \div k, Ww \div k >>
        back(s) == ReshapeSeq(Permute(ReshapeWindows(s, Cc, d), Cc, <<2, 1, 4, 3>>), Cc, LL)
        lr_y == out[1]
        ud_y == back(out[2])
        rl_y == Flip(out[3], Cc)
        du_y == back(Flip(out[4], Cc))
    IN IF SizeGuard(Hh, Ww, k) # "none"
       THEN [err |-> SizeGuard(Hh, Ww, k), xs |-> <<>>, out_y |-> <<>>, val |-> <<>>]
       ELSE [err |-> "none", xs |-> xx, out_y |-> out,
             val |-> << lr_y, ud_y, rl_y, du_y >>]

\* the tail of W_SS2D.forward: y1 + y2 + y3 + y4 mapped back to (H, W)
W_forward(yy, Cc, Hh, Ww, k) ==
    LET sum == AddSeq(AddSeq(AddSeq(yy[1], yy[2], Cc), yy[3], Cc), yy[4], Cc)
        d   == << k, k, Hh \div k, Ww \div k >>
    IN ViewGrid(Permute(ReshapeWindows(sum, Cc, d), Cc, <<3, 1, 4, 2>>), Cc, Hh, Ww)

\* ------------------------------------------------------------------ state
VARIABLES H, W, C, kernel, x,   \* the arguments of the call
          pc,                   \* the last operation called ("start": none)
          err,                  \* "none", or the error the last operation raised
          blocks_lr,            \* rearrange_center_blocks: tags appended to blocks_lr
          xs,                   \* rearrange_center_blocks: the returned (4, C, L) tensor
          Ds,                   \* the scan's skip scalars
          fault,                \* how the scan's result breaks its shape contract
          out_y,                \* the scan's output (4, C, L)
          y,                    \* the grid returned by a recover_* call / forward
          scan_calls,           \* number of calls of self.selective_scan made
          ys                    \* W_SS2D: the returned (lr_y, ud_y, rl_y, du_y)

vars == <<H, W, C, kernel, x, pc, err, blocks_lr, xs, Ds, fault, out_y, y,
          scan_calls, ys>>

L == H * W

Init ==
    \E hh \in 1 .. MaxH, ww \in 1 .. MaxW, cc \in 1 .. MaxC,
       k \in 0 .. MaxKernel, g \in GridKinds :
        /\ H = hh /\ W = ww /\ C = cc /\ kernel = k
        /\ x = MakeGrid(g, cc, hh, ww)
        /\ pc = "start"
        /\ err = "none"
        /\ blocks_lr = <<>>
        /\ xs = <<>>
        /\ Ds = <<1, 1, 1, 1>>
        /\ fault = "none"
        /\ out_y = <<>>
        /\ y = <<>>
        /\ scan_calls = 0
        /\ ys = <<>>

\* xs = rearrange_center_blocks(x, kernel)
Rearrange ==
    /\ pc = "start"
    /\ LET res == rearrange_center_blocks(x, C, kernel)
       IN /\ xs' = res.val
          /\ err' = res.err
    /\ blocks_lr' = BlocksLr(H, W, kernel)
    /\ pc' = "rearrange_center_blocks"
    /\ UNCHANGED <<H, W, C, kernel, x, Ds, fault, out_y, y, scan_calls, ys>>

\* y = recover_window_lr(xs[:, 0], kernel)
RecoverWindowLr ==
    /\ pc = "rearrange_center_blocks" /\ err = "none"
    /\ LET res == recover_window_lr(xs[1], C, kernel)
       IN /\ y' = res.val
          /\ err' = res.err
    /\ pc' = "recover_window_lr"
    /\ UNCHANGED <<H, W, C, kernel, x, blocks_lr, xs, Ds, fault, out_y, scan_calls, ys>>

\* y = recover_window_ud(xs[:, 1], kernel)
RecoverWindowUd ==
    /\ pc = "rearrange_center_blocks" /\ err = "none"
    /\ LET res == recover_window_ud(xs[2], C, kernel)
       IN /\ y' = res.val
          /\ err' = res.err
    /\ pc' = "recover_window_ud"
    /\ UNCHANGED <<H, W, C, kernel, x, blocks_lr, xs, Ds, fault, out_y, scan_calls, ys>>

\* out_y = self.selective_scan(xs, ...).view(B, K, -1, L)
SelectiveScan ==
    /\ pc = "rearrange_center_blocks" /\ err = "none"
    /\ \E run \in ScanRuns :
        LET ret == ScanReturn(FlatKD(selective_scan(xs, C, run[1]), C), C, run[2])
            res == ViewK(ret, Cardinality(DOMAIN ret), L)
        IN /\ Ds' = run[1]
           /\ fault' = run[2]
           /\ out_y' = res.val
           /\ err' = res.err
    /\ scan_calls' = scan_calls + 1
    /\ pc' = "selective_scan"
    /\ UNCHANGED <<H, W, C, kernel, x, blocks_lr, xs, y, ys>>

\* a recover_center_blocks that adds the reversed sequences in place
RecoverCenterBlocksMutant ==
    /\ pc = "selective_scan" /\ err = "none"
    /\ LET res == recover_center_blocks(out_y, NumChan(out_y), kernel)
       IN /\ y' = res.val
          /\ err' = res.err
    /\ out_y' = [out_y EXCEPT ![1] = AddSeq(out_y[1], Flip(out_y[3], NumChan(out_y)),
                                             NumChan(out_y))]
    /\ pc' = "recover_center_blocks"
    /\ UNCHANGED <<H, W, C, kernel, x, blocks_lr, xs, Ds, fault, scan_calls, ys>>

\* y = recover_center_blocks(out_y, kernel)
RecoverCenterBlocks ==
    /\ pc = "selective_scan" /\ err = "none"
    /\ LET res == recover_center_blocks(out_y, NumChan(out_y), kernel)
       IN /\ y' = res.val
          /\ err' = res.err
    /\ pc' = "recover_center_blocks"
    /\ UNCHANGED <<H, W, C, kernel, x, blocks_lr, xs, Ds, fault, out_y, scan_calls, ys>>

Next ==
    \/ Rearrange
    \/ RecoverWindowLr
    \/ RecoverWindowUd
    \/ SelectiveScan
    \/ RecoverCenterBlocks

Spec == Init /\ [][Next]_vars

\* ------------------------------------------------------- W_SS2D.forward
\* the state on entry of W_SS2D.forward, after kernel = H // 2
InitW ==
    \E hh \in 1 .. MaxH, ww \in 1 .. MaxW, cc \in 1 .. MaxC, g \in GridKinds :
        /\ H = hh /\ W = ww /\ C = cc /\ kernel = hh \div 2
        /\ x = MakeGrid(g, cc, hh, ww)
        /\ pc = "start"
        /\ err = "none"
        /\ blocks_lr = <<>>
        /\ xs = <<>>
        /\ Ds = <<1, 1, 1, 1>>
        /\ fault = "none"
        /\ out_y = <<>>
        /\ y = <<>>
        /\ scan_calls = 0
        /\ ys = <<>>

\* y1, y2, y3, y4 = self.forward_core(x)
WForwardCore ==
    /\ pc = "start"
    /\ \E Dsv \in ScanParams :
        LET res == W_forward_core(x, C, Dsv)
        IN /\ err' = res.err
           /\ xs' = res.xs
           /\ out_y' = res.out_y
           /\ ys' = res.val
           /\ Ds' = IF res.err = "none" THEN Dsv ELSE Ds
           /\ scan_calls' = IF res.err = "none" THEN scan_calls + 1 ELSE scan_calls
    /\ pc' = "W_forward_core"
    /\ UNCHANGED <<H, W, C, kernel, x, blocks_lr, fault, y>>

\* y = (y1 + y2 + y3 + y4).reshape(...).permute(...).view(B, -1, H, W)
WForward ==
    /\ pc = "W_forward_core" /\ err = "none"
    /\ y' = W_forward(ys, C, H, W, kernel)
    /\ pc' = "W_forward"
    /\ UNCHANGED <<H, W, C, kernel, x, err, blocks_lr, xs, Ds, fault, out_y,
                   scan_calls, ys>>

NextW ==
    \/ WForwardCore
    \/ WForward

SpecW == InitW /\ [][NextW]_vars

\* =================================================================
\* Reference geometry used by the properties: the three row bands and
\* the three column bands around the centred window, independent of the
\* slicing code above.
\* =================================================================
Valid == 1 <= kernel /\ kernel <= Min(H, W)

Cells == (0 .. (H - 1)) \X (0 .. (W - 1))

IdentityScan == Ds = <<1, 1, 1, 1>> /\ fault = "none"

\* first row of row band b (b = 4: one past the last row); same for columns
RowLo(b) == CASE b = 1 -> 0
              [] b = 2 -> (H - kernel) \div 2
              [] b = 3 -> (H - kernel) \div 2 + kernel
              [] OTHER -> H
ColLo(b) == CASE b = 1 -> 0
              [] b = 2 -> (W - kernel) \div 2
              [] b = 3 -> (W - kernel) \div 2 + kernel
              [] OTHER -> W
BandH(b) == RowLo(b + 1) - RowLo(b)
BandW(b) == ColLo(b + 1) - ColLo(b)
RowBand(r) == IF r < RowLo(2) THEN 1 ELSE IF r < RowLo(3) THEN 2 ELSE 3
ColBand(c) == IF c < ColLo(2) THEN 1 ELSE IF c < ColLo(3) THEN 2 ELSE 3

\* the i-th region of the LR order is (row band (i-1) div 3, column band
\* (i-1) mod 3); the i-th region of the UD order swaps the two
AreaLR(i) == BandH(((i - 1) \div 3) + 1) * BandW(((i - 1) % 3) + 1)
AreaUD(i) == BandH(((i - 1) % 3) + 1) * BandW(((i - 1) \div 3) + 1)

RECURSIVE AreasBeforeLR(_)
AreasBeforeLR(i) == IF i <= 1 THEN 0 ELSE AreaLR(i - 1) + AreasBeforeLR(i - 1)
RECURSIVE AreasBeforeUD(_)
AreasBeforeUD(i) == IF i <= 1 THEN 0 ELSE AreaUD(i - 1) + AreasBeforeUD(i - 1)

\* position (0-based) at which a region-by-region row-major traversal in the
\* order TL, T, TR, L, C, R, BL, B, BR visits cell (r, c)
RefPosLR(r, c) ==
    LET rb == RowBand(r)
        cb == ColBand(c)
    IN AreasBeforeLR(3 * (rb - 1) + cb)
       + (r - RowLo(rb)) * BandW(cb) + (c - ColLo(cb))

\* position (0-based) at which a region-by-region column-major traversal in
\* the order TL, L, BL, T, C, B, TR, R, BR visits cell (r, c)
RefPosUD(r, c) ==
    LET rb == RowBand(r)
        cb == ColBand(c)
    IN AreasBeforeUD(3 * (cb - 1) + rb)
       + (c - ColLo(cb)) * BandH(rb) + (r - RowLo(rb))

\* the cells of the slice that rearrange_center_blocks takes for a region
CellsOf(tag) ==
    LET s == SliceOf(tag, H, W, kernel)
    IN { rc \in Cells : /\ PyIndex(s.r0, H) <= rc[1] /\ rc[1] < PyIndex(s.r1, H)
                        /\ PyIndex(s.c0, W) <= rc[2] /\ rc[2] < PyIndex(s.c1, W) }

RECURSIVE SumArea(_)
SumArea(tags) ==
    IF tags = <<>> THEN 0 ELSE Cardinality(CellsOf(Head(tags))) + SumArea(Tail(tags))

Returned(op) == pc = op /\ err = "none"

\* =================================================================
\* Properties
\* =================================================================

\* C1: Partition coverage.  For 1 <= kernel <= min(H, W), once
\* rearrange_center_blocks has evaluated its guards, every cell of the grid
\* lies in exactly one of the regions appended to blocks_lr, and the areas of
\* those regions sum to H*W.
C1_PartitionCoverage ==
    (pc # "start" /\ Valid) =>
        /\ \A rc \in Cells :
             Cardinality({ i \in 1 .. Len(blocks_lr) : rc \in CellsOf(blocks_lr[i]) }) = 1
        /\ SumArea(blocks_lr) = H * W

\* a valid call whose partition has degenerate regions: only top, center_block
\* and bottom are appended
C1_Witness ==
    /\ pc = "rearrange_center_blocks" /\ Valid
    /\ H = 5 /\ W = 3 /\ kernel = 3 /\ Len(blocks_lr) = 3

UdSource(r, c) ==
    LET rb == RowBand(r)
        cb == ColBand(c)
        q  == (r - RowLo(rb)) * BandW(cb) + (c - ColLo(cb))
    IN << RowLo(rb) + (q % BandH(rb)), ColLo(cb) + (q \div BandH(rb)) >>

C3_Original ==
    (pc = "recover_window_lr" /\ Valid) => (err = "none" /\ y = x)

\* C4 as stated: whenever recover_window_ud is applied to the UD sequence of
\* a valid call and returns, the grid it returns equals G.
C4_Original ==
    (Returned("recover_window_ud") /\ Valid) => y = x

\* C5: LR sequence order.  Whenever rearrange_center_blocks returns, its
\* output 0 has length H*W and holds, at the position at which the reference
\* row-major traversal of the regions TL, T, TR, L, C, R, BL, B, BR visits a
\* cell, that cell's value, for every channel.
C5_LROrder ==
    (pc # "start" /\ err = "none" /\ Valid) =>
        \A c \in Chan(C) :
            /\ Len(xs[1][c]) = H * W
            /\ \A rc \in Cells : xs[1][c][RefPosLR(rc[1], rc[2]) + 1] = x.v[c][rc[1]][rc[2]]

\* a returned call on a non-square grid with an odd kernel and unequal bands
C5_Witness ==
    /\ Returned("rearrange_center_blocks") /\ Valid
    /\ H = 6 /\ W = 8 /\ kernel = 3 /\ C = 2
    /\ xs[1][0][1] = x.v[0][0][0]
    /\ xs[1][0][3] = x.v[0][0][2]

\* C6: UD sequence order.  Whenever rearrange_center_blocks returns, its
\* output 1 has length H*W and holds, at the position at which the reference
\* column-major traversal of the regions TL, L, BL, T, C, B, TR, R, BR visits
\* a cell, that cell's value, for every channel.
C6_UDOrder ==
    (pc # "start" /\ err = "none" /\ Valid) =>
        \A c \in Chan(C) :
            /\ Len(xs[2][c]) = H * W
            /\ \A rc \in Cells : xs[2][c][RefPosUD(rc[1], rc[2]) + 1] = x.v[c][rc[1]][rc[2]]

\* a returned call on a non-square grid: the second element of the UD
\* sequence is the cell below the first one
C6_Witness ==
    /\ Returned("rearrange_center_blocks") /\ Valid
    /\ H = 8 /\ W = 7 /\ kernel = 3 /\ C = 2
    /\ xs[2][1][2] = x.v[1][1][0]
    /\ xs[2][1][2] # xs[1][1][2]

\* C7: Reversed directions.  Whenever rearrange_center_blocks returns, for
\* every channel c and position p, output 2 at p is output 0 at L-1-p and
\* output 3 at p is output 1 at L-1-p, within the same channel.
C7_Reversed ==
    (pc # "start" /\ err = "none") =>
        \A c \in Chan(C) :
            /\ Len(xs[3][c]) = L /\ Len(xs[4][c]) = L
            /\ \A p \in 0 .. (L - 1) :
                /\ xs[3][c][p + 1] = xs[1][c][(L - 1 - p) + 1]
                /\ xs[4][c][p + 1] = xs[2][c][(L - 1 - p) + 1]

\* a returned call with two channels whose LR sequence is not a palindrome
C7_Witness ==
    /\ Returned("rearrange_center_blocks")
    /\ C = 2 /\ H = 5 /\ W = 4 /\ kernel = 2
    /\ xs[3][1] # xs[1][1]
    /\ xs[3][1][1] = xs[1][1][L]
    /\ xs[3][0] # xs[3][1]

\* C8 as stated: each of the four sequences is a bijection of the grid's
\* cells onto 0..L-1, so that recovery of the sequences of an identity-tagged
\* grid puts index i back at flat position i (here: for the UD sequence).
C8_Original ==
    (Returned("recover_window_ud") /\ Valid
        /\ \A rc \in Cells : x.v[0][rc[1]][rc[2]] = rc[1] * W + rc[2]) =>
        /\ \A d \in 1 .. 4 :
             /\ Len(xs[d][0]) = L
             /\ \A i \in 0 .. (L - 1) : \E p \in 1 .. L : xs[d][0][p] = i
        /\ \A rc \in Cells : y.v[0][rc[1]][rc[2]] = rc[1] * W + rc[2]

\* C9 as stated: recover_center_blocks returns, at every cell, the sum of the
\* LR-inverse of s_lr and the UD-inverse of s_ud, where
\* s_lr[p] = lr_out[p] + rl_out[L-1-p] and s_ud[p] = ud_out[p] + du_out[L-1-p].
C9_Original ==
    (Returned("recover_center_blocks") /\ fault = "none") =>
        \A c \in Chan(C) : \A rc \in Cells :
            LET pl == RefPosLR(rc[1], rc[2])
                pu == RefPosUD(rc[1], rc[2])
            IN y.v[c][rc[1]][rc[2]] =
                   (out_y[1][c][pl + 1] + out_y[3][c][(L - 1 - pl) + 1])
                 + (out_y[2][c][pu + 1] + out_y[4][c][(L - 1 - pu) + 1])

\* C10 as stated: for every valid (H, W, kernel) the nine segments that
\* recover_window_lr and recover_window_ud cut have, in order, the areas of
\* the partitioner's regions, and sum to H*W.
SegLen(seg) == PyLen(seg.a, seg.b, L)

C10_Original ==
    (pc \in {"recover_window_lr", "recover_window_ud"} /\ Valid) =>
        /\ \A i \in 1 .. 9 :
             /\ SegLen(SegmentsLr(kernel, L)[i]) = AreaLR(i)
             /\ SegmentsLr(kernel, L)[i].hh * SegmentsLr(kernel, L)[i].ww = AreaLR(i)
             /\ SegLen(SegmentsUd(kernel, L)[i]) = AreaUD(i)
             /\ SegmentsUd(kernel, L)[i].hh * SegmentsUd(kernel, L)[i].ww = AreaUD(i)
        /\ AreasBeforeLR(10) = H * W
        /\ AreasBeforeUD(10) = H * W

\* the row / column extent of the slice rearrange_center_blocks takes for a
\* region
RowsOf(tag) == LET s == SliceOf(tag, H, W, kernel) IN PyLen(s.r0, s.r1, H)
ColsOf(tag) == LET s == SliceOf(tag, H, W, kernel) IN PyLen(s.c0, s.c1, W)

\* C11 as stated: for odd kernel the extents of the partition beside Center
\* are floor(kernel/2) on the top/left and ceil(kernel/2) on the bottom/right;
\* for even kernel both sides are kernel/2.
C11_Original ==
    (pc # "start" /\ Valid) =>
        /\ RowsOf("top") = kernel \div 2
        /\ ColsOf("left") = kernel \div 2
        /\ RowsOf("bottom") = (IF IsEven(kernel) THEN kernel \div 2 ELSE kernel \div 2 + 1)
        /\ ColsOf("right") = (IF IsEven(kernel) THEN kernel \div 2 ELSE kernel \div 2 + 1)

\* C11 (amended): for every valid (H, W, kernel) the extent above (left of)
\* Center is (H-kernel)//2 ((W-kernel)//2) and the extent below (right of) it
\* is the rest, so the two sides differ, by one, exactly when H-kernel
\* (W-kernel) is odd; they are the values short and short1 (odd kernel) or
\* kernel/2 (even kernel) the recover functions assume exactly when
\* H = 2*kernel (W = 2*kernel).
C11_HalfExtents ==
    (pc # "start" /\ Valid) =>
        LET short  == kernel \div 2
            short1 == IF IsEven(kernel) THEN kernel \div 2 ELSE kernel \div 2 + 1
        IN /\ RowsOf("top") = (H - kernel) \div 2
           /\ RowsOf("top") + kernel + RowsOf("bottom") = H
           /\ RowsOf("bottom") - RowsOf("top") = (H - kernel) % 2
           /\ (RowsOf("top") = short /\ RowsOf("bottom") = short1) <=> (H = 2 * kernel)
           /\ ColsOf("left") = (W - kernel) \div 2
           /\ ColsOf("left") + kernel + ColsOf("right") = W
           /\ ColsOf("right") - ColsOf("left") = (W - kernel) % 2
           /\ (ColsOf("left") = short /\ ColsOf("right") = short1) <=> (W = 2 * kernel)

\* an odd kernel with H = W = 2*kernel (unequal sides 1 and 2)
C11_Witness ==
    /\ pc = "rearrange_center_blocks" /\ err = "none"
    /\ H = 6 /\ W = 6 /\ kernel = 3
    /\ RowsOf("top") = 1 /\ RowsOf("bottom") = 2
    /\ ColsOf("left") = 1 /\ ColsOf("right") = 2

\* C12 as stated: when H = W = kernel the partition is Center alone,
\* rearrange_center_blocks returns, its LR sequence is the row-major and its
\* UD sequence the column-major reshape of the grid.
C12_Original ==
    (pc = "rearrange_center_blocks" /\ Valid /\ H = kernel /\ W = kernel) =>
        /\ blocks_lr = <<"center_block">>
        /\ err = "none"
        /\ \A c \in Chan(C) : \A rc \in Cells :
             /\ xs[1][c][rc[1] * W + rc[2] + 1] = x.v[c][rc[1]][rc[2]]
             /\ xs[2][c][rc[2] * H + rc[1] + 1] = x.v[c][rc[1]][rc[2]]

\* C13 as stated: for every kernel with 1 <= kernel < min(H, W), degenerate
\* edge regions included, rearrange_center_blocks returns four sequences of
\* length H*W.
C13_Original ==
    (pc = "rearrange_center_blocks" /\ 1 <= kernel /\ kernel < Min(H, W)) =>
        /\ err = "none"
        /\ \A d \in 1 .. 4 : \A c \in Chan(C) : Len(xs[d][c]) = H * W

\* C14 as stated: for every valid (H, W, kernel), recover_window_lr and
\* recover_window_ud give a region a zero-length segment exactly when the
\* partitioner omitted it, and every segment starts at the offset at which
\* the region was written during flattening.
C14_Original ==
    (pc \in {"recover_window_lr", "recover_window_ud"} /\ Valid) =>
        \A i \in 1 .. 9 :
            /\ (SegmentsLr(kernel, L)[i].hh * SegmentsLr(kernel, L)[i].ww = 0)
                 <=> ~Guard(SegmentsLr(kernel, L)[i].tag, H, W, kernel)
            /\ (SegmentsUd(kernel, L)[i].hh * SegmentsUd(kernel, L)[i].ww = 0)
                 <=> ~Guard(SegmentsUd(kernel, L)[i].tag, H, W, kernel)
            /\ SegmentsLr(kernel, L)[i].a = AreasBeforeLR(i)
            /\ SegmentsUd(kernel, L)[i].a = AreasBeforeUD(i)

\* C15 (its weakest reading): a call of rearrange_center_blocks with
\* kernel <= 0 or kernel > min(H, W) is rejected with an error and produces
\* no sequences.
C15_Original ==
    (pc = "rearrange_center_blocks" /\ ~Valid) => (err # "none" /\ xs = <<>>)

\* C17: Region inclusion rule.  For every valid (H, W, kernel), each of the
\* eight edge and corner regions is appended to blocks_lr exactly when its row
\* band and its column band are both non-empty, and center_block is always
\* appended, its slice being kernel x kernel at offset
\* ((H-kernel)//2, (W-kernel)//2).
C17_InclusionRule ==
    (pc # "start" /\ Valid) =>
        /\ \A rb \in 1 .. 3 : \A cb \in 1 .. 3 :
             (\E i \in 1 .. Len(blocks_lr) : blocks_lr[i] = LROrder[3 * (rb - 1) + cb])
                <=> (BandH(rb) > 0 /\ BandW(cb) > 0)
        /\ RowsOf("center_block") = kernel /\ ColsOf("center_block") = kernel
        /\ PyIndex(SliceOf("center_block", H, W, kernel).r0, H) = (H - kernel) \div 2
        /\ PyIndex(SliceOf("center_block", H, W, kernel).c0, W) = (W - kernel) \div 2

\* a valid call with included and omitted regions: no top band, a bottom
\* band of one row, left and right bands of one column
C17_Witness ==
    /\ pc = "rearrange_center_blocks" /\ Valid
    /\ H = 4 /\ W = 5 /\ kernel = 3
    /\ blocks_lr = <<"left", "center_block", "right",
                     "bottom_left", "bottom", "bottom_right">>

\* C16 as stated: when the scan returns a result whose sequence length is
\* not H*W or whose channel count is not the input's, forward_core raises an
\* error instead of passing a tensor on to recover_center_blocks.
C16_Original ==
    (pc = "selective_scan" /\ Valid /\ fault # "none") => err # "none"

\* C18 as stated: for every grid (C, H, W) with H >= 2, the pass rearrange_center_blocks,
\* scan, recover_center_blocks with kernel = H//2 returns a grid of shape
\* (C, H, W).
C18_Original ==
    (kernel = H \div 2 /\ Valid /\ fault = "none") =>
        /\ err = "none"
        /\ pc = "recover_center_blocks" =>
             (y.h = H /\ y.w = W /\ DOMAIN y.v = Chan(C))

\* C19: Input is read-only.  No call changes its input: every step leaves
\* the grid x unchanged, the recover_window_* calls leave the sequences xs
\* they read unchanged, and recover_center_blocks leaves xs and out_y
\* unchanged.
C19_ReadOnly ==
    [][ /\ x' = x
        /\ pc' \in {"recover_window_lr", "recover_window_ud", "recover_center_blocks"}
             => (xs' = xs /\ out_y' = out_y)
        /\ pc' = "selective_scan" => xs' = xs ]_vars

\* recover_center_blocks has returned a grid different from its input grid,
\* which is still the identity-tagged grid the call started with
C19_Witness ==
    /\ Returned("recover_center_blocks") /\ fault = "none"
    /\ H = 6 /\ W = 6 /\ kernel = 3 /\ C = 2
    /\ x = MakeGrid("index", C, H, W)
    /\ y # x
    /\ xs = rearrange_center_blocks(x, C, kernel).val

\* C20: determinism and absence of cross-call state compare the results of
\* two executions; every result of the model is an operator of the call's
\* own arguments, so no formula over one behaviour states it.

\* C21: independence of the four scan directions under every order or
\* interleaving of their evaluation, and of concurrent pipeline runs, relates
\* several executions; forward_core makes one call of the scan for all
\* directions, so no formula over one behaviour states it.

C23_OperatingRegime ==
    (pc \in {"rearrange_center_blocks", "recover_window_lr"}
        /\ H = 2 * kernel /\ W = 2 * kernel /\ kernel >= 2) =>
        /\ \A i \in 1 .. 9 : RowsOf(LROrder[i]) > 0 /\ ColsOf(LROrder[i]) > 0
        /\ blocks_lr = LROrder
        /\ err = "none"
        /\ \A d \in 1 .. 4 : \A c \in Chan(C) : Len(xs[d][c]) = L
        /\ pc = "recover_window_lr" => y = x

\* the LR round trip with an odd kernel (bands of 1, 3 and 2 rows)
C23_Witness ==
    /\ Returned("recover_window_lr")
    /\ H = 6 /\ W = 6 /\ kernel = 3 /\ C = 2
    /\ x = MakeGrid("index", C, H, W)
    /\ xs[1][0][2] = x.v[0][0][1] /\ xs[1][0][5] = x.v[0][0][4]
    /\ xs[1][0][7] = x.v[0][1][0]
    /\ y = x

\* C24: UD recovery keeps cells inside their region.  Whenever
\* H = W = 2*kernel with kernel >= 2, recover_window_ud applied to the UD
\* sequence returns an H x W grid in which cell (r, c) holds the value of a
\* cell of the same region, distinct cells taking their values from distinct
\* cells (on the grid of flat indices: every index occurs once and lies in
\* the region it started in).
C24_WithinRegion ==
    (pc = "recover_window_ud" /\ H = 2 * kernel /\ W = 2 * kernel /\ kernel >= 2) =>
        /\ err = "none"
        /\ y.h = H /\ y.w = W
        /\ \A rc \in Cells :
             /\ UdSource(rc[1], rc[2]) \in Cells
             /\ RowBand(UdSource(rc[1], rc[2])[1]) = RowBand(rc[1])
             /\ ColBand(UdSource(rc[1], rc[2])[2]) = ColBand(rc[2])
             /\ \A c \in Chan(C) :
                  y.v[c][rc[1]][rc[2]] =
                      x.v[c][UdSource(rc[1], rc[2])[1]][UdSource(rc[1], rc[2])[2]]
        /\ { UdSource(rc[1], rc[2]) : rc \in Cells } = Cells
        /\ x = MakeGrid("index", C, H, W) =>
             /\ { y.v[0][rc[1]][rc[2]] : rc \in Cells } = 0 .. (L - 1)
             /\ \A rc \in Cells :
                  /\ RowBand(y.v[0][rc[1]][rc[2]] \div W) = RowBand(rc[1])
                  /\ ColBand(y.v[0][rc[1]][rc[2]] % W) = ColBand(rc[2])

\* the UD recovery of the grid of flat indices: the centre comes back
\* transposed, inside the centre
C24_Witness ==
    /\ Returned("recover_window_ud")
    /\ H = 6 /\ W = 6 /\ kernel = 3 /\ C = 1
    /\ x = MakeGrid("index", C, H, W)
    /\ y # x
    /\ y.v[0][1][2] = x.v[0][2][1]
    /\ y.v[0][0][0] = x.v[0][0][0]

\* C25: Completion condition of the flattener.  For 1 <= kernel <= min(H, W),
\* rearrange_center_blocks returns if and only if H - kernel >= 2 and
\* W - kernel >= 2, i.e. h_center > 0 and w_center > 0; otherwise it raises
\* UnboundLocalError at the UD region list, after blocks_lr was built, and
\* returns no sequences.
C25_FlattenerCompletion ==
    (pc = "rearrange_center_blocks" /\ Valid) =>
        /\ (err = "none") <=> (H - kernel >= 2 /\ W - kernel >= 2)
        /\ (err = "none") <=> (h_center(H, kernel) > 0 /\ w_center(W, kernel) > 0)
        /\ err = "none" => \A d \in 1 .. 4 : \A c \in Chan(C) : Len(xs[d][c]) = L
        /\ err # "none" =>
             /\ err = "UnboundLocalError"
             /\ xs = <<>>
             /\ Len(blocks_lr) >= 1
             /\ \E i \in 1 .. 9 : \A j \in 1 .. Len(blocks_lr) : blocks_lr[j] # UDOrder[i]

\* a valid call with no top band: the flattener aborts
C25_Witness ==
    /\ pc = "rearrange_center_blocks" /\ Valid
    /\ H = 4 /\ W = 6 /\ kernel = 3
    /\ err = "UnboundLocalError" /\ xs = <<>>
    /\ Len(blocks_lr) = 6

\* C26: Completion condition of the C_SS2D index pipeline.  With
\* kernel = H//2 and a scan that keeps the shape, rearrange_center_blocks,
\* scan and recover_center_blocks all return, the last with an H x W grid, if
\* H = W, H is even and H >= 4; in every other case one of them raises an
\* error and no grid is returned.
C26_PipelineCompletion ==
    (kernel = H \div 2 /\ fault = "none"
        /\ pc \in {"rearrange_center_blocks", "selective_scan", "recover_center_blocks"}) =>
        IF H = W /\ IsEven(H) /\ H >= 4
        THEN /\ err = "none"
             /\ pc = "recover_center_blocks" =>
                  (y.h = H /\ y.w = W /\ DOMAIN y.v = Chan(C))
        ELSE /\ pc = "recover_center_blocks" => err # "none"
             /\ y = <<>>

\* the pipeline returns on the 6 x 6 grid (kernel = 3)
C26_Witness ==
    /\ Returned("recover_center_blocks") /\ fault = "none"
    /\ H = 6 /\ W = 6 /\ kernel = H \div 2 /\ C = 2
    /\ y.h = 6 /\ y.w = 6

\* position (0-based) of cell (r, c) in the window ordering: within-window
\* row, within-window column, block row, block column
WinPos(r, c) ==
    (((r % kernel) * kernel + (c % kernel)) * (H \div kernel) + (r \div kernel))
        * (W \div kernel) + (c \div kernel)

\* C27 as stated: for every grid accepted by the divisibility assertion,
\* H # W included, with the identity scan the four returned sequences lr_y,
\* ud_y, rl_y, du_y are equal position by position.
C27_Original ==
    (pc = "W_forward_core" /\ err = "none" /\ IdentityScan) =>
        /\ ys[2] = ys[1]
        /\ ys[3] = ys[1]
        /\ ys[4] = ys[1]

\* the sum y1 + y2 + y3 + y4 of forward, at 0-based position p of channel c
YSum(c, p) == ys[1][c][p + 1] + ys[2][c][p + 1] + ys[3][c][p + 1] + ys[4][c][p + 1]

\* C28: W_SS2D window round trip.  Whenever forward_core accepts the grid,
\* its first sequence has length H*W and holds every cell (r, c) at the
\* position of the window ordering, which is a bijection of the cells onto
\* 0..L-1; the reshape/permute of forward puts the value at that position
\* back at (r, c), so that a sum of four copies of the first sequence comes
\* back as 4 times the grid.
C28_WindowRoundTrip ==
    (pc \in {"W_forward_core", "W_forward"} /\ err = "none") =>
        /\ \A c \in Chan(C) :
             /\ Len(xs[1][c]) = L
             /\ \A rc \in Cells :
                  xs[1][c][WinPos(rc[1], rc[2]) + 1] = x.v[c][rc[1]][rc[2]]
        /\ { WinPos(rc[1], rc[2]) : rc \in Cells } = 0 .. (L - 1)
        /\ pc = "W_forward" =>
             /\ y.h = H /\ y.w = W /\ DOMAIN y.v = Chan(C)
             /\ \A c \in Chan(C) : \A rc \in Cells :
                  y.v[c][rc[1]][rc[2]] = YSum(c, WinPos(rc[1], rc[2]))
             /\ (ys[2] = xs[1] /\ ys[3] = xs[1] /\ ys[4] = xs[1] /\ ys[1] = xs[1]) =>
                  \A c \in Chan(C) : \A rc \in Cells :
                      y.v[c][rc[1]][rc[2]] = 4 * x.v[c][rc[1]][rc[2]]

\* a 4 x 6 grid of 2 x 2 windows (2 block rows, 3 block columns): the second
\* element of the first sequence is the top-left cell of the second window
C28_Witness ==
    /\ pc = "W_forward" /\ err = "none"
    /\ H = 4 /\ W = 6 /\ kernel = 2 /\ C = 2
    /\ x = MakeGrid("index", C, H, W)
    /\ xs[1][0][2] = x.v[0][0][2]
    /\ xs[1][0][7] = x.v[0][0][1]
    /\ y.v[1][0][2] = YSum(1, 1)
    /\ y.h = 4 /\ y.w = 6

\* C29: W_SS2D size guard.  forward_core builds its sequences exactly when
\* kernel = H//2 >= 1 and H and W are both multiples of kernel; for every
\* other (H, W) with H >= 2 it raises AssertionError before any sequence is
\* built or scanned, and for H = 1 (kernel = 0) it raises ZeroDivisionError.
C29_SizeGuard ==
    pc = "W_forward_core" =>
        /\ kernel = H \div 2
        /\ (err = "none") <=> (kernel >= 1 /\ H % kernel = 0 /\ W % kernel = 0)
        /\ err = "none" =>
             /\ scan_calls = 1
             /\ \A d \in 1 .. 4 : \A c \in Chan(C) : Len(xs[d][c]) = L
        /\ err # "none" => (xs = <<>> /\ ys = <<>> /\ scan_calls = 0)
        /\ (H >= 2 /\ err # "none") => err = "AssertionError"
        /\ H = 1 => err = "ZeroDivisionError"

\* H = 6 is a multiple of kernel = 3, W = 8 is not: the assertion stops the
\* call
C29_Witness ==
    /\ pc = "W_forward_core"
    /\ H = 6 /\ W = 8 /\ kernel = 3
    /\ err = "AssertionError" /\ xs = <<>>
====
